---- MODULE Spec2Model ----
(***************************************************************************)
(* Model of the algorithmic core of two PostHog query modules:             *)
(*   ee/clickhouse/queries/clickhouse_retention.py                         *)
(*       ClickhouseRetention.calculate_retention  (SpecRetention)          *)
(*   posthog/queries/sessions/session_recording.py                         *)
(*       SessionRecording.merge_snapshot_chunks   (SpecMerge)              *)
(*       filter_sessions_by_recordings            (SpecSessions)           *)
(* The three functions share no state.  Each specification runs one call   *)
(* of one of them, from its arguments to its return or its exception, and  *)
(* leaves the variables of the other two at their idle value.              *)
(***************************************************************************)
EXTENDS Integers, Sequences, FiniteSets, TLC

\* ------------------------------------------------------------------------
\* Bounds of the model
\* ------------------------------------------------------------------------
MaxIntervals == 3     \* largest total_intervals
MaxRows == 2          \* most rows in the result of the retention query
MaxStream == 3        \* most elements of unmerged_snapshots
MaxChunks == 2        \* largest chunk_count
MaxSessions == 2      \* most sessions in sessions_results
MaxRecordings == 2    \* most rows in the result of the range query

Idle == "idle"

VARIABLES
    \* calculate_retention
    rpc,              \* "call", "done" (returned) or "raised"
    period,           \* filter.period or "Day"
    total_intervals,  \* argument
    result,           \* rows returned by sync_execute
    result_dict,      \* (res[0], res[1]) -> cell
    parsed,           \* the returned list
    \* merge_snapshot_chunks
    mpc,                       \* "run", "done" (returned) or "raised"
    unmerged_snapshots,        \* argument
    taken,                     \* elements of unmerged_snapshots consumed
    snapshot_collectors,       \* snapshot_id -> collector
    snapshots_and_collectors,  \* the units in order
    visited,                   \* units of snapshots_and_collectors consumed
    snapshots,                 \* the list being returned
    origin,                    \* history: for each element of snapshots, the
                               \* input position its unit was created at
    captured,                  \* history: for each capture_message call, the
                               \* input position its collector was created at
    \* filter_sessions_by_recordings
    spc,                        \* "call" or "done"
    filter,                     \* the SessionsFilter
    sessions_results,           \* argument, mutated in place
    session_recordings,         \* rows returned by query
    viewed_session_recordings,  \* session ids the user has viewed
    returned                    \* the returned list

retVars == <<rpc, period, total_intervals, result, result_dict, parsed>>

mergeVars == <<mpc, unmerged_snapshots, taken, snapshot_collectors,
               snapshots_and_collectors, visited, snapshots, origin, captured>>

sessVars == <<spc, filter, sessions_results, session_recordings,
              viewed_session_recordings, returned>>

vars == <<retVars, mergeVars, sessVars>>

IdleRetention ==
    /\ rpc = Idle /\ period = Idle /\ total_intervals = 0 /\ result = <<>>
    /\ result_dict = <<>> /\ parsed = <<>>

IdleSessions ==
    /\ spc = Idle /\ filter = Idle /\ sessions_results = <<>>
    /\ session_recordings = <<>> /\ viewed_session_recordings = {}
    /\ returned = <<>>

IdleMerge ==
    /\ mpc = Idle /\ unmerged_snapshots = <<>> /\ taken = 0
    /\ snapshot_collectors = <<>> /\ snapshots_and_collectors = <<>>
    /\ visited = 0 /\ snapshots = <<>> /\ origin = <<>> /\ captured = <<>>

\* ------------------------------------------------------------------------
\* ClickhouseRetention
\* ------------------------------------------------------------------------
SupportedPeriods == {"Hour", "Day", "Week", "Month"}

\* the periods a filter can carry: the supported ones and one that is not
Periods == SupportedPeriods \cup {"Year"}

\* _determineTimedelta(n, period)[0]: the span of n periods, kept symbolic
\* (Month is calendar arithmetic, the others are fixed durations)
DetermineTimedelta(n, p) ==
    CASE p = "Hour"  -> [hours |-> n]
      [] p = "Week"  -> [weeks |-> n]
      [] p = "Day"   -> [days |-> n]
      [] p = "Month" -> [months |-> n]

\* the date the rows are anchored at, kept symbolic: date_from, moved back
\* to the start of its week for weekly periods
AnchorDate(p) ==
    IF p = "Week" THEN "date_from - (date_from.isoweekday() % 7) days"
    ELSE "date_from"

\* the counts a row of the query can carry: a returned group has members
CellCounts == {1, 2}

\* a row of the aggregate query: (res[0], res[1], res[2]); the buckets may
\* lie outside the matrix
ResultRows == (0..MaxIntervals) \X (0..MaxIntervals) \X CellCounts

\* result_dict.update({(res[0], res[1]): {"count": res[2], "people": []}})
DictUpdate(d, res) ==
    [key \in DOMAIN d \cup {<<res[1], res[2]>>} |->
        IF key = <<res[1], res[2]>> THEN [count |-> res[3], people |-> <<>>]
        ELSE d[key]]

RECURSIVE FoldRows(_, _)
\* for res in result: result_dict.update(...), from the dict d on
FoldRows(rows, d) ==
    IF rows = <<>> THEN d
    ELSE FoldRows(Tail(rows), DictUpdate(d, Head(rows)))

\* result_dict.get(key, {"count": 0, "people": []})
DictGet(d, key) ==
    IF key \in DOMAIN d THEN d[key] ELSE [count |-> 0, people |-> <<>>]

\* variant: the second component of the key counted from the anchor of the
\* whole matrix instead of from the row's own bucket
CellKeyFromAnchor(first_day, day) == <<first_day, first_day + day>>

\* the key looked up for the cell at position day of row first_day
CellKey(first_day, day) == <<first_day, day>>

\* variant: every row as long as the first one
RowLengthSquare(n, first_day) == n

\* the number of cells of row first_day: range(total_intervals - first_day)
RowLength(n, first_day) == n - first_day

\* one element of parsed (rows and cells are 1-based sequences here: cell
\* `day` of the code is values[day + 1], row first_day is parsed[first_day+1])
ParsedRow(d, n, p, first_day) ==
    [values |-> [c \in 1..RowLength(n, first_day) |->
                    DictGet(d, CellKey(first_day, c - 1))],
     label  |-> <<p, first_day>>,
     date   |-> <<AnchorDate(p), DetermineTimedelta(first_day, p)>>]

\* the list comprehension
Parsed(d, n, p) == [r \in 1..n |-> ParsedRow(d, n, p, r - 1)]

InitRetention ==
    /\ rpc = "call"
    /\ period \in Periods
    /\ total_intervals \in 1..MaxIntervals
    /\ \E len \in 0..MaxRows : result \in [1..len -> ResultRows]
    /\ result_dict = <<>>
    /\ parsed = <<>>
    /\ IdleMerge
    /\ IdleSessions

\* _determineTimedelta raises ValueError before any query is made
RaiseUnsupportedPeriod ==
    /\ rpc = "call"
    /\ period \notin SupportedPeriods
    /\ rpc' = "raised"
    /\ UNCHANGED <<period, total_intervals, result, result_dict, parsed>>
    /\ UNCHANGED <<mergeVars, sessVars>>

\* the query, the fold of its rows, the comprehension and the return
CalculateRetention ==
    /\ rpc = "call"
    /\ period \in SupportedPeriods
    /\ result_dict' = FoldRows(result, <<>>)
    /\ parsed' = Parsed(result_dict', total_intervals, period)
    /\ rpc' = "done"
    /\ UNCHANGED <<period, total_intervals, result>>
    /\ UNCHANGED <<mergeVars, sessVars>>

NextRetention == RaiseUnsupportedPeriod \/ CalculateRetention

SpecRetention == InitRetention /\ [][NextRetention]_vars

\* the count of the last row of rows whose key is key, 0 when there is none
LastCount(rows, key) ==
    LET hits == {n \in 1..Len(rows) : <<rows[n][1], rows[n][2]>> = key}
    IN  IF hits = {} THEN 0
        ELSE rows[CHOOSE n \in hits : \A o \in hits : o <= n][3]

C5_Triangular ==
    rpc = "done" =>
        /\ Len(parsed) = total_intervals
        /\ \A i \in 0..(total_intervals - 1) :
              Len(parsed[i + 1].values) = total_intervals - i

\* a matrix of several rows built from rows whose keys lie outside it
C5_Witness ==
    /\ rpc = "done"
    /\ total_intervals >= 2
    /\ Len(result) >= 1
    /\ \A n \in 1..Len(result) :
          result[n][1] + result[n][2] >= total_intervals
    /\ Len(parsed[total_intervals].values) = 1

\* ------------------------------------------------------------------------
\* SessionRecording.merge_snapshot_chunks
\* ------------------------------------------------------------------------
\* Text is a sequence of characters.  The characters of the model are the
\* digit 1 and the minus sign: enough for payloads whose value depends on
\* the order of their pieces ("-1" decodes, "1-" does not) and for texts
\* that are no JSON document ("", "-", "1-", "--").
Digit == "1"
Minus == "-"
ChunkTexts == {<<>>, <<Digit>>, <<Minus>>}
SnapshotIds == {"a", "b"}
FullSnapshots == {"s1"}

JSONDecodeError == [ok |-> FALSE]

\* the number written by n digits 1
RECURSIVE Ones(_)
Ones(n) == IF n = 0 THEN 0 ELSE 10 * Ones(n - 1) + 1

\* json.loads(t) on texts of digits 1 and minus signs: the document is an
\* optional minus sign followed by a non-empty run of digits and decodes to
\* the number it writes; anything else raises JSONDecodeError
JsonLoads(t) ==
    LET negative == Len(t) >= 1 /\ t[1] = Minus
        first    == IF negative THEN 2 ELSE 1
    IN  IF first <= Len(t) /\ \A n \in first..Len(t) : t[n] = Digit
        THEN [ok |-> TRUE,
              value |-> IF negative THEN 0 - Ones(Len(t) - 1) ELSE Ones(Len(t))]
        ELSE JSONDecodeError

\* the elements of unmerged_snapshots
\* the fragments, every fragment of a snapshot carrying the snapshot's
\* chunk_count, counts[id]; chunk_index counts[id] lies outside the snapshot
Chunks(counts) ==
    UNION {[posthog_chunked : {TRUE}, snapshot_id : {id},
            chunk_index : 0..counts[id], chunk_count : {counts[id]},
            chunk_data : ChunkTexts] : id \in SnapshotIds}

Wholes == [posthog_chunked : {FALSE}, data : FullSnapshots]

\* snapshot ids are only compared with one another, so a stream and the
\* stream with the ids exchanged are treated alike: of the two, the one
\* whose first fragment belongs to snapshot "a" is taken
FirstSnapshotIsA(stream) ==
    \A p \in 1..Len(stream) :
        (stream[p].posthog_chunked /\ stream[p].snapshot_id # "a") =>
            \E q \in 1..(p - 1) :
                stream[q].posthog_chunked /\ stream[q].snapshot_id = "a"

IsCollector(u) == "collector" \in DOMAIN u

\* the collector made for the first fragment seen of a snapshot, `at` being
\* the history of where in the input that was
NewCollector(e, pos) ==
    [collector |-> TRUE, event |-> e, count |-> e.chunk_count,
     chunks |-> <<>>, at |-> pos]

NewSnapshot(e, pos) == [snapshot |-> TRUE, data |-> e, at |-> pos]

\* collector["chunks"][chunk_index] = chunk_data
PutChunk(c, e) ==
    [c EXCEPT !.chunks =
        [i \in DOMAIN c.chunks \cup {e.chunk_index} |->
            IF i = e.chunk_index THEN e.chunk_data ELSE c.chunks[i]]]

\* variant: a new unit put in front of the units seen so far
AppendUnitInFront(units, u) == <<u>> \o units

\* snapshots_and_collectors.append(u)
AppendUnit(units, u) == Append(units, u)

\* the collector is one object reached from the dict and from the list:
\* the list after a change of the collector of snapshot id
ReplaceCollector(units, id, c) ==
    [p \in DOMAIN units |->
        IF IsCollector(units[p]) /\ units[p].event.snapshot_id = id
        THEN c ELSE units[p]]

\* snapshot_or_collector["chunks"].get(i) is truthy
HasChunk(c, i) == i \in DOMAIN c.chunks /\ c.chunks[i] # <<>>

HasAllChunks(c) == \A i \in 0..(c.count - 1) : HasChunk(c, i)

RECURSIVE ConcatDown(_, _, _)
\* variant: the pieces taken from the last index down to the first
ConcatDown(chunks, from, n) ==
    IF from >= n THEN <<>>
    ELSE ConcatDown(chunks, from + 1, n) \o chunks[from]

RECURSIVE ConcatChunks(_, _, _)
\* data = data + chunks[i] for i = from .. n - 1
ConcatChunks(chunks, from, n) ==
    IF from >= n THEN <<>>
    ELSE chunks[from] \o ConcatChunks(chunks, from + 1, n)

CollectorData(c) == ConcatChunks(c.chunks, 0, c.count)

InitMerge ==
    /\ mpc = "run"
    /\ \E counts \in [SnapshotIds -> 1..MaxChunks], len \in 0..MaxStream :
          /\ unmerged_snapshots \in [1..len -> Chunks(counts) \cup Wholes]
          /\ FirstSnapshotIsA(unmerged_snapshots)
    /\ taken = 0
    /\ snapshot_collectors = <<>>
    /\ snapshots_and_collectors = <<>>
    /\ visited = 0
    /\ snapshots = <<>>
    /\ origin = <<>>
    /\ captured = <<>>
    /\ IdleRetention
    /\ IdleSessions

\* first loop, a fragment of a snapshot not seen before
CollectFirstChunk ==
    /\ mpc = "run"
    /\ taken < Len(unmerged_snapshots)
    /\ LET e == unmerged_snapshots[taken + 1] IN
        /\ e.posthog_chunked
        /\ e.snapshot_id \notin DOMAIN snapshot_collectors
        /\ LET c == PutChunk(NewCollector(e, taken + 1), e) IN
            /\ snapshot_collectors' =
                 [id \in DOMAIN snapshot_collectors \cup {e.snapshot_id} |->
                     IF id = e.snapshot_id THEN c ELSE snapshot_collectors[id]]
            /\ snapshots_and_collectors' =
                 AppendUnit(snapshots_and_collectors, c)
    /\ taken' = taken + 1
    /\ UNCHANGED <<mpc, unmerged_snapshots, visited, snapshots, origin, captured>>
    /\ UNCHANGED <<retVars, sessVars>>

\* first loop, a further fragment of a snapshot
CollectNextChunk ==
    /\ mpc = "run"
    /\ taken < Len(unmerged_snapshots)
    /\ LET e == unmerged_snapshots[taken + 1] IN
        /\ e.posthog_chunked
        /\ e.snapshot_id \in DOMAIN snapshot_collectors
        /\ LET c == PutChunk(snapshot_collectors[e.snapshot_id], e) IN
            /\ snapshot_collectors' =
                 [snapshot_collectors EXCEPT ![e.snapshot_id] = c]
            /\ snapshots_and_collectors' =
                 ReplaceCollector(snapshots_and_collectors, e.snapshot_id, c)
    /\ taken' = taken + 1
    /\ UNCHANGED <<mpc, unmerged_snapshots, visited, snapshots, origin, captured>>
    /\ UNCHANGED <<retVars, sessVars>>

\* first loop, a full snapshot
CollectSnapshot ==
    /\ mpc = "run"
    /\ taken < Len(unmerged_snapshots)
    /\ LET e == unmerged_snapshots[taken + 1] IN
        /\ ~e.posthog_chunked
        /\ snapshots_and_collectors' =
             AppendUnit(snapshots_and_collectors, NewSnapshot(e, taken + 1))
    /\ taken' = taken + 1
    /\ UNCHANGED <<mpc, unmerged_snapshots, snapshot_collectors, visited, snapshots,
                   origin, captured>>
    /\ UNCHANGED <<retVars, sessVars>>

\* second loop, a collector with all its chunks whose text decodes
EmitMerged ==
    /\ mpc = "run"
    /\ taken = Len(unmerged_snapshots)
    /\ visited < Len(snapshots_and_collectors)
    /\ LET u == snapshots_and_collectors[visited + 1] IN
        /\ IsCollector(u)
        /\ HasAllChunks(u)
        /\ JsonLoads(CollectorData(u)).ok
        /\ snapshots' = Append(snapshots, JsonLoads(CollectorData(u)).value)
        /\ origin' = Append(origin, u.at)
    /\ visited' = visited + 1
    /\ UNCHANGED <<mpc, unmerged_snapshots, taken, snapshot_collectors,
                   snapshots_and_collectors, captured>>
    /\ UNCHANGED <<retVars, sessVars>>

\* second loop, a collector with all its chunks whose text does not decode:
\* json.loads raises and nothing catches it
RaiseDecodeError ==
    /\ mpc = "run"
    /\ taken = Len(unmerged_snapshots)
    /\ visited < Len(snapshots_and_collectors)
    /\ LET u == snapshots_and_collectors[visited + 1] IN
        /\ IsCollector(u)
        /\ HasAllChunks(u)
        /\ ~JsonLoads(CollectorData(u)).ok
    /\ mpc' = "raised"
    /\ UNCHANGED <<unmerged_snapshots, taken, snapshot_collectors,
                   snapshots_and_collectors, visited, snapshots, origin, captured>>
    /\ UNCHANGED <<retVars, sessVars>>

\* second loop, a collector without all its chunks
ReportMissingChunks ==
    /\ mpc = "run"
    /\ taken = Len(unmerged_snapshots)
    /\ visited < Len(snapshots_and_collectors)
    /\ LET u == snapshots_and_collectors[visited + 1] IN
        /\ IsCollector(u)
        /\ ~HasAllChunks(u)
        /\ captured' = Append(captured, u.at)
    /\ visited' = visited + 1
    /\ UNCHANGED <<mpc, unmerged_snapshots, taken, snapshot_collectors,
                   snapshots_and_collectors, snapshots, origin>>
    /\ UNCHANGED <<retVars, sessVars>>

\* second loop, a full snapshot
EmitSnapshot ==
    /\ mpc = "run"
    /\ taken = Len(unmerged_snapshots)
    /\ visited < Len(snapshots_and_collectors)
    /\ LET u == snapshots_and_collectors[visited + 1] IN
        /\ ~IsCollector(u)
        /\ snapshots' = Append(snapshots, u.data.data)
        /\ origin' = Append(origin, u.at)
    /\ visited' = visited + 1
    /\ UNCHANGED <<mpc, unmerged_snapshots, taken, snapshot_collectors,
                   snapshots_and_collectors, captured>>
    /\ UNCHANGED <<retVars, sessVars>>

\* return snapshots
ReturnSnapshots ==
    /\ mpc = "run"
    /\ taken = Len(unmerged_snapshots)
    /\ visited = Len(snapshots_and_collectors)
    /\ mpc' = "done"
    /\ UNCHANGED <<unmerged_snapshots, taken, snapshot_collectors,
                   snapshots_and_collectors, visited, snapshots, origin, captured>>
    /\ UNCHANGED <<retVars, sessVars>>

NextMerge ==
    \/ CollectFirstChunk
    \/ CollectNextChunk
    \/ CollectSnapshot
    \/ EmitMerged
    \/ RaiseDecodeError
    \/ ReportMissingChunks
    \/ EmitSnapshot
    \/ ReturnSnapshots

SpecMerge == InitMerge /\ [][NextMerge]_vars

\* --- the input stream, read without the collectors ----------------------
\* the input positions of the fragments of snapshot id
FragmentsOf(id) ==
    {p \in 1..Len(unmerged_snapshots) :
        unmerged_snapshots[p].posthog_chunked
        /\ unmerged_snapshots[p].snapshot_id = id}

GroupsIn == {id \in SnapshotIds : FragmentsOf(id) # {}}

WholesIn ==
    {p \in 1..Len(unmerged_snapshots) : ~unmerged_snapshots[p].posthog_chunked}

FirstAt(id) == CHOOSE p \in FragmentsOf(id) : \A q \in FragmentsOf(id) : p <= q

DeclaredCount(id) == unmerged_snapshots[FirstAt(id)].chunk_count

FragmentsAt(id, i) ==
    {p \in FragmentsOf(id) : unmerged_snapshots[p].chunk_index = i}

\* a fragment arrived at every index in [0, chunk_count)
AllIndicesArrived(id) ==
    \A i \in 0..(DeclaredCount(id) - 1) : FragmentsAt(id, i) # {}

\* exactly one fragment arrived at every index in [0, chunk_count)
OneFragmentPerIndex(id) ==
    \A i \in 0..(DeclaredCount(id) - 1) : Cardinality(FragmentsAt(id, i)) = 1

\* the text recorded at index i: that of the last fragment with that index
RecordedAt(id, i) ==
    unmerged_snapshots[CHOOSE p \in FragmentsAt(id, i) :
                          \A q \in FragmentsAt(id, i) : q <= p].chunk_data

RECURSIVE InIndexOrder(_, _)
\* the recorded texts of indices i .. chunk_count - 1, in increasing index
InIndexOrder(id, i) ==
    IF i >= DeclaredCount(id) THEN <<>>
    ELSE RecordedAt(id, i) \o InIndexOrder(id, i + 1)

\* the elements of snapshots that come from the unit created at position p
EmittedFrom(p) == {n \in 1..Len(origin) : origin[n] = p}

\* the capture_message calls made for the unit created at position p
CapturedFor(p) == {n \in 1..Len(captured) : captured[n] = p}

\* the call is over: it returned or it raised
MergeOver == mpc \in {"done", "raised"}

\* the units that the returned list carries; a call that raised returns none
Returned(p) == mpc = "done" /\ EmittedFrom(p) # {}

\* a group all of whose indices arrived with a non-empty text
FullGroup(id) ==
    /\ AllIndicesArrived(id)
    /\ \A i \in 0..(DeclaredCount(id) - 1) : RecordedAt(id, i) # <<>>

\* C1: for a chunk group of which exactly the fragments of indices
\* 0..chunk_count-1 are in the stream, in whatever order they arrived, the
\* payload emitted for the group is the decoding of the concatenation of the
\* fragments' chunk_data in increasing chunk_index order.
C1_IndexOrderPayload ==
    \A n \in 1..Len(snapshots) :
        LET e == unmerged_snapshots[origin[n]] IN
        (e.posthog_chunked /\ OneFragmentPerIndex(e.snapshot_id)) =>
            /\ JsonLoads(InIndexOrder(e.snapshot_id, 0)).ok
            /\ snapshots[n] = JsonLoads(InIndexOrder(e.snapshot_id, 0)).value

\* a group of two fragments that arrived last index first, whose text in
\* arrival order is no document, and whose payload was emitted and returned
C1_Witness ==
    /\ mpc = "done"
    /\ \E id \in GroupsIn :
        /\ DeclaredCount(id) = 2
        /\ OneFragmentPerIndex(id)
        /\ \E p \in FragmentsAt(id, 1), q \in FragmentsAt(id, 0) :
            /\ p < q
            /\ ~JsonLoads(unmerged_snapshots[p].chunk_data
                          \o unmerged_snapshots[q].chunk_data).ok
        /\ \E n \in EmittedFrom(FirstAt(id)) : snapshots[n] = 0 - 1

\* C2 as stated: when a complete chunk group's text fails to decode, every
\* non-chunked payload and every other complete group of the stream is
\* still in the returned list.
C2_MalformedGroupIsolated ==
    (MergeOver /\ \E bad \in GroupsIn :
                    FullGroup(bad) /\ ~JsonLoads(InIndexOrder(bad, 0)).ok)
    => /\ \A p \in WholesIn : Returned(p)
       /\ \A id \in GroupsIn :
            (FullGroup(id) /\ JsonLoads(InIndexOrder(id, 0)).ok)
            => Returned(FirstAt(id))

\* C3 as stated: a chunk group of which some index in [0, chunk_count) never
\* arrives contributes no element to the output and causes exactly one
\* diagnostic; every non-chunked payload and every complete group of the
\* stream is still emitted.
C3_IncompleteGroupDropped ==
    (MergeOver /\ \E gap \in GroupsIn : ~AllIndicesArrived(gap))
    => /\ \A id \in GroupsIn :
            ~AllIndicesArrived(id) =>
                /\ EmittedFrom(FirstAt(id)) = {}
                /\ Cardinality(CapturedFor(FirstAt(id))) = 1
       /\ \A p \in WholesIn : Returned(p)
       /\ \A id \in GroupsIn : AllIndicesArrived(id) => Returned(FirstAt(id))

\* C8: the returned list orders its elements by the input position of the
\* first appearance of their unit (a non-chunked payload's own position, a
\* chunk group's first-arriving fragment), not by the position at which a
\* group became complete.
C8_FirstAppearanceOrder ==
    mpc = "done" =>
        /\ \A a, b \in 1..Len(origin) : a < b => origin[a] < origin[b]
        /\ \A n \in 1..Len(origin) :
             LET e == unmerged_snapshots[origin[n]] IN
             IF e.posthog_chunked
             THEN origin[n] = FirstAt(e.snapshot_id)
             ELSE snapshots[n] = e.data

\* a group whose first fragment precedes a non-chunked payload and whose
\* last fragment follows it, emitted before that payload
C8_Witness ==
    /\ mpc = "done"
    /\ \E id \in GroupsIn, w \in WholesIn :
        /\ FirstAt(id) < w
        /\ \E p \in FragmentsOf(id) : w < p
        /\ \E a \in EmittedFrom(FirstAt(id)), b \in EmittedFrom(w) : a < b

\* C10 as stated: a chunk group is emitted, exactly once, if and only if by
\* the end of the stream a fragment has been recorded at every index in
\* [0, chunk_count), whatever text the fragments carry.
C10_EmittedIffAllIndices ==
    mpc = "done" =>
        \A id \in GroupsIn :
            (Cardinality(EmittedFrom(FirstAt(id))) = 1) <=> AllIndicesArrived(id)

\* ------------------------------------------------------------------------
\* filter_sessions_by_recordings
\* ------------------------------------------------------------------------
DistinctIds == {"u1", "u2"}
RecordingIds == {"r1", "r2"}

\* two instants give every relative position of two closed intervals:
\* apart, sharing one instant, one within the other
Times == 1..2

\* the sessions handed in: a span of one distinct_id
Sessions ==
    {ss \in [distinct_id : DistinctIds, start_time : Times, end_time : Times] :
        ss.start_time <= ss.end_time}

\* the fields of the SessionsFilter that filter_sessions_by_recordings
\* reads itself
Filters ==
    [recording_unseen_filter : BOOLEAN, limit_by_recordings : BOOLEAN]

\* a row of SESSIONS_IN_RANGE_QUERY
RecordingRows ==
    {rr \in [session_id : RecordingIds, distinct_id : DistinctIds,
             start_time : Times, end_time : Times] :
        rr.start_time <= rr.end_time}

\* what query_sessions_in_range(team, start, end, filter) can return: the
\* events are grouped by (distinct_id, session_id), so no two rows share
\* both; start_time and end_time are the MIN and MAX of timestamps taken in
\* [start, end]; the order of the rows is free.  The duration clause of the
\* filter only takes rows away, and what is left is again such a list.
QueryResult(rows, start, end) ==
    /\ \A a, b \in 1..Len(rows) :
         (rows[a].distinct_id = rows[b].distinct_id
            /\ rows[a].session_id = rows[b].session_id) => a = b
    /\ \A a \in 1..Len(rows) :
         /\ start <= rows[a].start_time
         /\ rows[a].end_time <= end

\* variant: an overlap that needs more than a shared endpoint
MatchesOpenOverlap(session, session_recording, f, viewed) ==
    /\ session.distinct_id = session_recording.distinct_id
    /\ session.start_time < session_recording.end_time
    /\ session.end_time > session_recording.start_time
    /\ (~f.recording_unseen_filter \/ session_recording.session_id \notin viewed)

\* variant: the distinct_id of the recording not looked at
MatchesAnyDistinctId(session, session_recording, f, viewed) ==
    /\ session.start_time <= session_recording.end_time
    /\ session.end_time >= session_recording.start_time
    /\ (~f.recording_unseen_filter \/ session_recording.session_id \notin viewed)

Matches(session, session_recording, f, viewed) ==
    /\ session.distinct_id = session_recording.distinct_id
    /\ session.start_time <= session_recording.end_time
    /\ session.end_time >= session_recording.start_time
    /\ (~f.recording_unseen_filter \/ session_recording.session_id \notin viewed)

RECURSIVE CollectMatchingRecordings(_, _, _, _)
\* the list of what the generator yields, row by row
CollectMatchingRecordings(session, rows, f, viewed) ==
    IF rows = <<>> THEN <<>>
    ELSE LET recording == Head(rows)
             rest == CollectMatchingRecordings(session, Tail(rows), f, viewed)
         IN  IF Matches(session, recording, f, viewed)
             THEN <<[id |-> recording.session_id,
                     viewed |-> recording.session_id \in viewed]>> \o rest
             ELSE rest

\* session["session_recordings"] = recordings
WithRecordings(session, recordings) ==
    [key \in DOMAIN session \cup {"session_recordings"} |->
        IF key = "session_recordings" THEN recordings ELSE session[key]]

\* variant: a session is kept whatever its list holds
KeepsAny(session) == Len(session.session_recordings) >= 0

\* len(session["session_recordings"]) > 0
Keeps(session) == Len(session.session_recordings) > 0

RECURSIVE KeptSessions(_)
\* [session for session in sessions if len(session["session_recordings"]) > 0]
KeptSessions(sessions) ==
    IF sessions = <<>> THEN <<>>
    ELSE IF Keeps(Head(sessions))
         THEN <<Head(sessions)>> \o KeptSessions(Tail(sessions))
         ELSE KeptSessions(Tail(sessions))

MinStart(sessions) ==
    CHOOSE t \in {sessions[n].start_time : n \in 1..Len(sessions)} :
        \A n \in 1..Len(sessions) : t <= sessions[n].start_time

MaxEnd(sessions) ==
    CHOOSE t \in {sessions[n].end_time : n \in 1..Len(sessions)} :
        \A n \in 1..Len(sessions) : sessions[n].end_time <= t

\* for session in sessions_results: session["session_recordings"] = list(...)
AttachRecordings(sessions, rows, f, viewed) ==
    [n \in DOMAIN sessions |->
        WithRecordings(sessions[n],
            CollectMatchingRecordings(sessions[n], rows, f, viewed))]

InitSessions ==
    /\ spc = "call"
    /\ filter \in Filters
    /\ \E len \in 0..MaxSessions : sessions_results \in [1..len -> Sessions]
    /\ session_recordings = <<>>
    /\ viewed_session_recordings = {}
    /\ returned = <<>>
    /\ IdleRetention
    /\ IdleMerge

\* len(sessions_results) == 0: the list is returned as it came
ReturnNoSessions ==
    /\ spc = "call"
    /\ Len(sessions_results) = 0
    /\ returned' = sessions_results
    /\ spc' = "done"
    /\ UNCHANGED <<filter, sessions_results, session_recordings,
                   viewed_session_recordings>>
    /\ UNCHANGED <<retVars, mergeVars>>

\* the range query over the span of the batch, the read of the viewed set
\* and the loop over the sessions
QueryAndAttach ==
    /\ Len(sessions_results) > 0
    /\ \E len \in 0..MaxRecordings : \E rows \in [1..len -> RecordingRows] :
        /\ QueryResult(rows, MinStart(sessions_results),
                       MaxEnd(sessions_results))
        /\ session_recordings' = rows
    /\ viewed_session_recordings' \in SUBSET RecordingIds
    /\ sessions_results' =
         AttachRecordings(sessions_results, session_recordings', filter,
                          viewed_session_recordings')

\* filter.limit_by_recordings is set: the sessions with recordings are kept
ReturnSessionsWithRecordings ==
    /\ spc = "call"
    /\ filter.limit_by_recordings
    /\ QueryAndAttach
    /\ returned' = KeptSessions(sessions_results')
    /\ spc' = "done"
    /\ UNCHANGED filter
    /\ UNCHANGED <<retVars, mergeVars>>

\* filter.limit_by_recordings is not set: the batch is returned whole
ReturnAllSessions ==
    /\ spc = "call"
    /\ ~filter.limit_by_recordings
    /\ QueryAndAttach
    /\ returned' = sessions_results'
    /\ spc' = "done"
    /\ UNCHANGED filter
    /\ UNCHANGED <<retVars, mergeVars>>

NextSessions ==
    \/ ReturnNoSessions
    \/ ReturnSessionsWithRecordings
    \/ ReturnAllSessions

SpecSessions == InitSessions /\ [][NextSessions]_vars

\* the n-th smallest member of a set of positions
NthOf(positions, n) ==
    CHOOSE a \in positions : Cardinality({b \in positions : b <= a}) = n

\* the rule of the correlation, as the claim words it
Correlates(session, recording) ==
    /\ session.distinct_id = recording.distinct_id
    /\ session.start_time <= recording.end_time
    /\ session.end_time >= recording.start_time
    /\ (filter.recording_unseen_filter
            => recording.session_id \notin viewed_session_recordings)

\* the rows of the batch that correlate with the session
CorrelatedRows(session) ==
    {a \in 1..Len(session_recordings) :
        Correlates(session, session_recordings[a])}

\* C6: a recording candidate of the batch appears in a session's
\* session_recordings if and only if it has the session's distinct_id, its
\* interval meets the session's (closed-closed) and, when the unseen-only
\* filter is on, its session_id is not in the viewed set; the entries come
\* in the order of the batch.
C6_CorrelationRule ==
    spc = "done" =>
    \A n \in 1..Len(sessions_results) :
        LET session == sessions_results[n]
            list == session.session_recordings
            rows == CorrelatedRows(session)
        IN  /\ Len(list) = Cardinality(rows)
            /\ \A j \in 1..Len(list) :
                 list[j].id = session_recordings[NthOf(rows, j)].session_id

\* a session that got a recording it shares one instant with, while another
\* recording of its distinct_id within its span was left out as viewed
C6_Witness ==
    /\ spc = "done"
    /\ filter.recording_unseen_filter
    /\ \E n \in 1..Len(sessions_results) :
        \E a, b \in 1..Len(session_recordings) :
          LET session == sessions_results[n]
              touching == session_recordings[a]
              seen == session_recordings[b]
          IN  /\ session.end_time = touching.start_time
              /\ session.start_time < touching.end_time
              /\ \E j \in 1..Len(session.session_recordings) :
                    session.session_recordings[j].id = touching.session_id
              /\ seen.distinct_id = session.distinct_id
              /\ seen.session_id \in viewed_session_recordings
              /\ \A j \in 1..Len(session.session_recordings) :
                    session.session_recordings[j].id # seen.session_id

\* C7: whatever batch the range query returned, the same recording
\* identifier in several rows included, no session of the result carries two
\* entries with the same recording id.
C7_NoDuplicateRecording ==
    spc = "done" =>
        \A n \in 1..Len(returned) :
            \A a, b \in 1..Len(returned[n].session_recordings) :
                returned[n].session_recordings[a].id
                    = returned[n].session_recordings[b].id => a = b

\* a batch with two rows of one recording identifier, both within the span
\* of a returned session that carries that identifier
C7_Witness ==
    /\ spc = "done"
    /\ \E a, b \in 1..Len(session_recordings) :
        /\ a # b
        /\ session_recordings[a].session_id = session_recordings[b].session_id
        /\ \E n \in 1..Len(returned) :
             /\ returned[n].start_time <= session_recordings[a].end_time
             /\ returned[n].end_time >= session_recordings[a].start_time
             /\ returned[n].start_time <= session_recordings[b].end_time
             /\ returned[n].end_time >= session_recordings[b].start_time
             /\ \E j \in 1..Len(returned[n].session_recordings) :
                  returned[n].session_recordings[j].id
                      = session_recordings[a].session_id

\* the sessions whose attached list is not empty
SessionsWithRecordings ==
    {n \in 1..Len(sessions_results) :
        sessions_results[n].session_recordings # <<>>}

\* C9: with limit_by_recordings on, the returned batch is exactly the input
\* sessions whose session_recordings is non-empty, in input order; with it
\* off, every input session is returned, one without matches with an empty
\* list.
C9_RequireMatchDrop ==
    spc = "done" =>
        /\ \A n \in 1..Len(sessions_results) :
             "session_recordings" \in DOMAIN sessions_results[n]
        /\ IF filter.limit_by_recordings
           THEN /\ Len(returned) = Cardinality(SessionsWithRecordings)
                /\ \A j \in 1..Len(returned) :
                     returned[j] = sessions_results[NthOf(SessionsWithRecordings, j)]
           ELSE returned = sessions_results

\* with the filter on, a batch of which one session was dropped and one kept
C9_Witness ==
    /\ spc = "done"
    /\ filter.limit_by_recordings
    /\ Len(returned) >= 1
    /\ Len(returned) < Len(sessions_results)
    /\ sessions_results[1].session_recordings = <<>>

====
